---- MODULE Spec2Model ----
(***************************************************************************)
(* OTP authentication, session hook, chatroom dashboard and chat           *)
(* interface of the kuvaka_assignment React application, as a state        *)
(* machine.  Component state lives in React hooks; a component that is not *)
(* mounted has no state, which is written here as the empty sequence       *)
(* (None) against a one-element sequence (Some(v)).  Timeouts created with *)
(* setTimeout are kept in the sequence `timers`, each with the time it has *)
(* left and the values its closure captured when it was created.           *)
(***************************************************************************)
EXTENDS Integers, Sequences, FiniteSets, TLC

VARIABLES
  hookModule,      \* the useOTPAuth source the build resolves, once it shows
  localStorage,    \* window.localStorage: function from key to stored value
  sessionStorage,  \* window.sessionStorage: the keys 'otp' and 'otpPhone'
  appAuth,         \* authState of the useOTPAuth() instance held by App
  otpState,        \* OTPAuth's otpState (None while OTPAuth is not mounted)
  intervalRem,     \* time left of the resend setInterval (0: none or due)
  dash,            \* Dashboard's state (None while not mounted)
  chat,            \* ChatInterface's state (None while not mounted)
  timers,          \* pending setTimeout / FileReader callbacks, oldest first
  now,             \* Date.now(), counted in the handlers that have read it
  cooldown         \* history of the resend countdown (see SendTimeout)

vars == <<hookModule, localStorage, sessionStorage, appAuth, otpState,
          intervalRem, dash, chat, timers, now, cooldown>>

-----------------------------------------------------------------------------
(* Bounds of the model *)

MaxPending == 2
MaxNow == 5
MaxRooms == 2
MaxMessages == 2
MaxLogins == 2

(* Program constants *)

SendDelayMs == 1500
VerifyDelayMs == 1000
LoginDelayMs == 1000
IntervalMs == 1000
ReplyDelayMs == 1000
ImageReplyDelayMs == 1500
CooldownSeconds == 60
OtpBase == 100000
OtpSpan == 900000
OtpLength == 6
PreviewLength == 100

\* One step of model time: the largest unit that divides every delay.
TickMs == SendDelayMs - VerifyDelayMs
Units(ms) == ms \div TickMs

-----------------------------------------------------------------------------
(* Values *)

None == <<>>
Some(v) == <<v>>
IsSome(o) == Len(o) = 1
Val(o) == o[1]

Min(a, b) == IF a < b THEN a ELSE b

Digits == {"0", "1", "2", "3", "4", "5", "6", "7", "8", "9"}
Char(s, i) == SubSeq(s, i, i)

\* String.prototype.replace(/\D/g, '')
RECURSIVE StripNonDigits(_)
StripNonDigits(s) ==
  IF s = "" THEN ""
  ELSE (IF Head(s) \in Digits THEN Head(s) ELSE "") \o StripNonDigits(Tail(s))

\* String.prototype.trim()
RECURSIVE TrimStart(_)
TrimStart(s) ==
  IF s = "" THEN "" ELSE IF Head(s) = " " THEN TrimStart(Tail(s)) ELSE s

RECURSIVE TrimEnd(_)
TrimEnd(s) ==
  IF s = "" THEN ""
  ELSE IF Char(s, Len(s)) = " " THEN TrimEnd(SubSeq(s, 1, Len(s) - 1)) ELSE s

Trim(s) == TrimEnd(TrimStart(s))

\* String.prototype.substring(0, n) and slice(0, n) for n >= 0
Substring0(s, n) == SubSeq(s, 1, Min(n, Len(s)))

\* String.prototype.startsWith
StartsWith(s, p) == Len(s) >= Len(p) /\ SubSeq(s, 1, Len(p)) = p

\* new Date().toISOString() at the current clock value
ISOString(t) == "T" \o ToString(t)

RemoveAt(s, i) == SubSeq(s, 1, i - 1) \o SubSeq(s, i + 1, Len(s))

(* Storage: getItem gives None for an absent key *)

GetItem(store, k) == IF k \in DOMAIN store THEN Some(store[k]) ELSE None
SetItem(store, k, v) ==
  [x \in DOMAIN store \cup {k} |-> IF x = k THEN v ELSE store[x]]
RemoveItem(store, k) == [x \in DOMAIN store \ {k} |-> store[x]]
EmptyStorage == [x \in {} |-> None]

\* sessionStorage with neither 'otp' nor 'otpPhone'
NoChallenge == [otp |-> None, otpPhone |-> None]

UserKey == "otpUser"
ChatroomsKey(userId) == "chatrooms_" \o userId
MessagesKey(roomId) == "messages_" \o roomId

-----------------------------------------------------------------------------
(* Inputs *)

CountryCodes == {"+1", "+44"}
RawPhones == {"( ) -", "555-1234"}
RawOtps == {"1000-00 7", "999999"}
\* Math.random() * 900000, floored: the two ends of the range
RandomDraws == {0, OtpSpan - 1}

-----------------------------------------------------------------------------
(* useOTPAuth *)

InitialAuthState == [user |-> None, isLoading |-> TRUE, isAuthenticated |-> FALSE]

\* The user of an authState: the spread copies whatever fields the object
\* has.  (The hook adds createdAt, the time of the call, to the copy; nothing
\* reads that field and it is left out here.)
WithTimestamp(user) == user

\* A stored string that is not JSON text.  Every other stored value stands for
\* the JSON text of the record it is.
NotJSON(text) == [notJSON |-> text]
IsJSON(v) == "notJSON" \notin DOMAIN v

\* `if (storedUser)`: every string but the empty one
Truthy(v) == IsJSON(v) \/ v.notJSON # ""

Unauthenticated == [user |-> None, isLoading |-> FALSE, isAuthenticated |-> FALSE]

\* checkAuthState with the flag set and the user forgotten
CheckAuthStateFlagOnly(store) ==
  [Unauthenticated EXCEPT !.isAuthenticated = IsSome(GetItem(store, UserKey))]

\* checkAuthState: the authState a mounting hook instance settles in.
\* JSON.parse throws on a string that is not JSON and the catch block answers.
CheckAuthState(store) ==
  LET storedUser == GetItem(store, UserKey)
  IN IF IsSome(storedUser) /\ Truthy(Val(storedUser))
     THEN IF IsJSON(Val(storedUser))
          THEN [user |-> Some(WithTimestamp(Val(storedUser))),
                isLoading |-> FALSE, isAuthenticated |-> TRUE]
          ELSE Unauthenticated
     ELSE Unauthenticated

\* What App renders for an authState
ShowsDashboard(a) == ~a.isLoading /\ a.isAuthenticated /\ IsSome(a.user)
ShowsOTPAuth(a) == ~a.isLoading /\ ~ShowsDashboard(a)

InitialOtpState ==
  [step |-> "phone", phone |-> "", countryCode |-> "+1", otp |-> "",
   isLoading |-> FALSE, error |-> None, timeLeft |-> 0, canResend |-> TRUE]

\* Dashboard mount: its own useOTPAuth instance, then the chatroom load effect
LoadChatrooms(store, user) ==
  IF IsSome(user) /\ IsSome(GetItem(store, ChatroomsKey(Val(user).id)))
  THEN Val(GetItem(store, ChatroomsKey(Val(user).id)))
  ELSE <<>>

MountDashboard(store) ==
  [user |-> CheckAuthState(store).user,
   isAuthenticated |-> CheckAuthState(store).isAuthenticated,
   chatrooms |-> LoadChatrooms(store, CheckAuthState(store).user),
   selectedChatroom |-> None]

-----------------------------------------------------------------------------
(* Clock and timers *)

\* Date.now() and new Date() give one value within a handler and a later value
\* in every later handler; a handler that reads them leaves the next value
ClockReadable == now < MaxNow

Timer(kind, ms, data) == [kind |-> kind, rem |-> Units(ms), data |-> data]

\* A due timeout runs once the timeouts of its kind created before it have run
Due(i) ==
  /\ i \in 1..Len(timers)
  /\ timers[i].rem = 0
  /\ \A j \in 1..(i - 1) : ~(timers[j].rem = 0 /\ timers[j].kind = timers[i].kind)

\* An interval that is never cleared
IntervalAlwaysActive == IsSome(otpState)

\* The condition under which the timer effect starts an interval
IntervalActive == IsSome(otpState) /\ Val(otpState).timeLeft > 0

\* The effect on [otpState.timeLeft]: a change of timeLeft clears the interval
\* and, while timeLeft > 0, starts a new one
IntervalAfter(old, new) ==
  IF new = old THEN intervalRem
  ELSE IF new > 0 THEN Units(IntervalMs) ELSE 0

\* setOtpState while OTPAuth is mounted, with the timer effect that follows
SetOtpState(new) ==
  /\ otpState' = Some(new)
  /\ intervalRem' = IntervalAfter(Val(otpState).timeLeft, new.timeLeft)

-----------------------------------------------------------------------------
(* OTPAuth *)

\* Country select, rendered in the phone step
SelectCountry(cc) ==
  /\ IsSome(otpState) /\ Val(otpState).step = "phone"
  /\ SetOtpState([Val(otpState) EXCEPT !.countryCode = cc])
  /\ UNCHANGED <<hookModule, localStorage, sessionStorage, appAuth, dash, chat,
                 timers, now, cooldown>>

\* Phone input onChange, rendered in the phone step
TypePhone(raw) ==
  /\ IsSome(otpState) /\ Val(otpState).step = "phone"
  /\ SetOtpState([Val(otpState) EXCEPT !.phone = StripNonDigits(raw),
                                       !.error = None])
  /\ UNCHANGED <<hookModule, localStorage, sessionStorage, appAuth, dash, chat,
                 timers, now, cooldown>>

\* OTP input onChange, rendered in the otp step
TypeOtp(raw) ==
  /\ IsSome(otpState) /\ Val(otpState).step = "otp"
  /\ SetOtpState([Val(otpState) EXCEPT
                    !.otp = Substring0(StripNonDigits(raw), OtpLength),
                    !.error = None])
  /\ UNCHANGED <<hookModule, localStorage, sessionStorage, appAuth, dash, chat,
                 timers, now, cooldown>>

InvalidPhoneError == Some("Please enter a valid phone number")

\* A check that finds a phone in every otpState
PhoneNeverMissing(o) == FALSE

\* The check sendOTP makes before it does anything
PhoneMissing(o) == Trim(o.phone) = ""

\* sendOTP, called with the otpState `o` its closure sees and the otpState
\* `cur` the functional updates apply to; the timeout keeps of `o` the phone
\* it reads and the step the request was made in
SendOTP(o, cur) ==
  IF PhoneMissing(o)
  THEN /\ SetOtpState([cur EXCEPT !.error = InvalidPhoneError])
       /\ UNCHANGED timers
  ELSE /\ SetOtpState([cur EXCEPT !.isLoading = TRUE, !.error = None])
       /\ timers' = Append(timers,
             Timer("send", SendDelayMs,
                   [phone |-> o.countryCode \o o.phone, step |-> o.step]))

\* The Send OTP button
SendOTPClick ==
  /\ IsSome(otpState) /\ Val(otpState).step = "phone"
  /\ ~Val(otpState).isLoading /\ Trim(Val(otpState).phone) # ""
  /\ Len(timers) < MaxPending
  /\ SendOTP(Val(otpState), Val(otpState))
  /\ UNCHANGED <<hookModule, localStorage, sessionStorage, appAuth, dash, chat,
                 now, cooldown>>

\* The timeout of sendOTP
SendTimeout(i) ==
  /\ Due(i) /\ timers[i].kind = "send"
  /\ \E r \in RandomDraws :
       sessionStorage' = [otp |-> Some(ToString(OtpBase + r)),
                          otpPhone |-> Some(timers[i].data.phone)]
  /\ IF IsSome(otpState)
     THEN SetOtpState([Val(otpState) EXCEPT
                         !.step = "otp", !.isLoading = FALSE,
                         !.timeLeft = CooldownSeconds, !.canResend = FALSE])
     ELSE UNCHANGED <<otpState, intervalRem>>
  /\ timers' = RemoveAt(timers, i)
  /\ cooldown' = "running"
  /\ UNCHANGED <<hookModule, localStorage, appAuth, dash, chat, now>>

\* A countdown that skips a second
TimeLeftSkipping(timeLeft) == timeLeft - 2

\* timeLeft after one run of the interval callback
TimeLeftAfterTick(timeLeft) == timeLeft - 1

\* The setInterval callback of the resend timer
IntervalTick ==
  /\ IntervalActive /\ intervalRem = 0
  /\ SetOtpState([Val(otpState) EXCEPT
                    !.timeLeft = TimeLeftAfterTick(Val(otpState).timeLeft),
                    !.canResend = (Val(otpState).timeLeft <= 1)])
  /\ cooldown' = IF TimeLeftAfterTick(Val(otpState).timeLeft) = 0
                 THEN "elapsed" ELSE cooldown
  /\ UNCHANGED <<hookModule, localStorage, sessionStorage, appAuth, dash, chat,
                 timers, now>>

\* The verifications that are pending
PendingVerifies == {j \in 1..Len(timers) : timers[j].kind = "verify"}

\* The Verify OTP button.  Each pending verification may end in a login, so
\* the bound on logins is applied where the verification is started.
VerifyOTPClick ==
  /\ IsSome(otpState) /\ Val(otpState).step = "otp"
  /\ ~Val(otpState).isLoading /\ Len(Val(otpState).otp) = OtpLength
  /\ Len(timers) < MaxPending
  /\ now + Cardinality(PendingVerifies) < MaxLogins
  /\ IF Trim(Val(otpState).otp) = "" \/ Len(Val(otpState).otp) # OtpLength
     THEN /\ SetOtpState([Val(otpState) EXCEPT
                            !.error = Some("Please enter a valid 6-digit OTP")])
          /\ UNCHANGED timers
     ELSE /\ SetOtpState([Val(otpState) EXCEPT !.isLoading = TRUE, !.error = None])
          /\ timers' = Append(timers,
                Timer("verify", VerifyDelayMs,
                      [otp |-> Val(otpState).otp, phone |-> Val(otpState).phone,
                       countryCode |-> Val(otpState).countryCode]))
  /\ UNCHANGED <<hookModule, localStorage, sessionStorage, appAuth, dash, chat,
                 now, cooldown>>

\* No error message
NoOtpError == None

InvalidOtpError == Some("Invalid OTP. Please try again.")

\* A comparison that accepts any code while a challenge is stored
OtpMatchesAnyCode(entered, stored) == IsSome(stored)

\* The comparison made by the timeout of verifyOTP
OtpMatches(entered, stored) == Some(entered) = stored

NewUser(d) ==
  [id |-> "user_" \o ToString(now), phone |-> d.phone, countryCode |-> d.countryCode]

\* The timeout of verifyOTP
VerifyTimeout(i) ==
  /\ Due(i) /\ timers[i].kind = "verify"
  /\ IF OtpMatches(timers[i].data.otp, sessionStorage.otp)
     THEN /\ ClockReadable
          /\ localStorage' = SetItem(localStorage, UserKey, NewUser(timers[i].data))
          /\ sessionStorage' = NoChallenge
          /\ IF IsSome(otpState)
             THEN SetOtpState([Val(otpState) EXCEPT
                                 !.step = "verified", !.isLoading = FALSE])
             ELSE UNCHANGED <<otpState, intervalRem>>
          /\ timers' = Append(RemoveAt(timers, i),
                Timer("login", LoginDelayMs, [user |-> NewUser(timers[i].data)]))
          /\ now' = now + 1
     ELSE /\ IF IsSome(otpState)
             THEN SetOtpState([Val(otpState) EXCEPT
                                 !.isLoading = FALSE,
                                 !.error = InvalidOtpError])
             ELSE UNCHANGED <<otpState, intervalRem>>
          /\ timers' = RemoveAt(timers, i)
          /\ UNCHANGED <<localStorage, sessionStorage, now>>
  /\ UNCHANGED <<hookModule, appAuth, dash, chat, cooldown>>

\* A check that lets every resend through
ResendAlwaysAllowed(o) == TRUE

\* The check resendOTP makes before it does anything
ResendAllowed(o) == o.canResend

\* resendOTP, the handler of the Resend OTP button of the otp step (the button
\* is rendered while canResend; the handler makes the check itself)
ResendOTP ==
  /\ IsSome(otpState) /\ Val(otpState).step = "otp"
  /\ Len(timers) < MaxPending
  /\ IF ResendAllowed(Val(otpState))
     THEN SendOTP(Val(otpState),
                  [Val(otpState) EXCEPT !.otp = "", !.error = None])
     ELSE UNCHANGED <<otpState, intervalRem, timers>>
  /\ UNCHANGED <<hookModule, localStorage, sessionStorage, appAuth, dash, chat,
                 now, cooldown>>

\* The Change Phone Number button, rendered in the otp step
GoBack ==
  /\ IsSome(otpState) /\ Val(otpState).step = "otp"
  /\ SetOtpState([Val(otpState) EXCEPT
                    !.step = "phone", !.otp = "", !.error = None,
                    !.timeLeft = 0, !.canResend = TRUE])
  /\ UNCHANGED <<hookModule, localStorage, sessionStorage, appAuth, dash, chat,
                 timers, now, cooldown>>

-----------------------------------------------------------------------------
(* App and useOTPAuth *)

\* The state of a page that has just been loaded: nothing is mounted but App,
\* whose hook instance has not yet run its effect; no timer and no countdown
\* survives a load
PageLoad ==
  /\ appAuth' = InitialAuthState
  /\ otpState' = None
  /\ intervalRem' = 0
  /\ dash' = None
  /\ chat' = None
  /\ timers' = <<>>
  /\ cooldown' = "none"

\* The mount effect of App's useOTPAuth instance, and the render that follows:
\* App shows Dashboard for an authenticated state and OTPAuth otherwise
AppMount ==
  /\ appAuth.isLoading
  /\ appAuth' = CheckAuthState(localStorage)
  /\ IF ShowsDashboard(CheckAuthState(localStorage))
     THEN otpState' = None /\ dash' = Some(MountDashboard(localStorage))
     ELSE otpState' = Some(InitialOtpState) /\ dash' = None
  /\ UNCHANGED <<hookModule, localStorage, sessionStorage, intervalRem, chat,
                 timers, now, cooldown>>

\* The browser loads the page again
Reload ==
  /\ ~appAuth.isLoading
  /\ PageLoad
  /\ UNCHANGED <<hookModule, localStorage, sessionStorage, now>>

\* A login that stores the user and leaves the session as it was
LoggedInUnnoticed(user) == appAuth

\* The authState login sets
LoggedIn(user) ==
  [user |-> Some(WithTimestamp(user)), isLoading |-> FALSE, isAuthenticated |-> TRUE]

\* login of App's hook instance, called by the timeout that verifyOTP sets on
\* success; App then renders Dashboard in place of OTPAuth
LoginTimeout(i) ==
  /\ Due(i) /\ timers[i].kind = "login"
  /\ localStorage' = SetItem(localStorage, UserKey, timers[i].data.user)
  /\ appAuth' = LoggedIn(timers[i].data.user)
  /\ otpState' = None
  /\ intervalRem' = 0
  /\ dash' = IF IsSome(dash) THEN dash
             ELSE Some(MountDashboard(
                    SetItem(localStorage, UserKey, timers[i].data.user)))
  /\ timers' = RemoveAt(timers, i)
  /\ UNCHANGED <<hookModule, sessionStorage, chat, now, cooldown>>

\* The keys logout of part_002 removes
IsChatKey(k) == StartsWith(k, "chatrooms_") \/ StartsWith(k, "messages_")
WithoutChatKeys(store) ==
  [k \in {x \in DOMAIN store : ~IsChatKey(x)} |-> store[k]]

\* logout of Dashboard's hook instance as written in part_001: the instance's
\* own authState is reset, App's instance is not told
Logout_part_001 ==
  /\ hookModule \in {"unresolved", "part_001"}
  /\ hookModule' = "part_001"
  /\ IsSome(dash) /\ Val(dash).selectedChatroom = None
  /\ localStorage' = RemoveItem(localStorage, UserKey)
  /\ sessionStorage' = NoChallenge
  /\ dash' = Some([Val(dash) EXCEPT !.user = None, !.isAuthenticated = FALSE])
  /\ UNCHANGED <<appAuth, otpState, intervalRem, chat, timers, now, cooldown>>

\* logout as written in part_002: also removes every chatrooms_ and messages_
\* key and reloads the page
Logout_part_002 ==
  /\ hookModule \in {"unresolved", "part_002"}
  /\ hookModule' = "part_002"
  /\ IsSome(dash) /\ Val(dash).selectedChatroom = None
  /\ localStorage' = WithoutChatKeys(RemoveItem(localStorage, UserKey))
  /\ sessionStorage' = NoChallenge
  /\ PageLoad
  /\ UNCHANGED now

-----------------------------------------------------------------------------
(* Dashboard *)

RoomNames == {" Demo ", "   "}

\* saveChatrooms with the `user` its closure sees: the new localStorage
SaveChatroomsStore(store, user, rooms) ==
  IF IsSome(user) THEN SetItem(store, ChatroomsKey(Val(user).id), rooms) ELSE store

\* saveChatrooms without its setChatrooms
SaveChatroomsStoreOnly(cur, user, rooms) == cur

\* saveChatrooms: the new in-memory list of the (mounted) Dashboard
SaveChatroomsList(cur, user, rooms) == IF IsSome(user) THEN rooms ELSE cur

\* The operations of Dashboard on the chatroom list: the load effect,
\* createChatroom, deleteChatroom and onUpdateChatroom
StoreOperations == {"list", "create", "delete", "update"}

\* What an operation throws when Dashboard's hook instance has user `user`.
\* Each tests `user` (`if (user)`, `|| !user`) and skips its work or returns
\* when there is none; no path has a throw statement or rejects.
StoreError(op, user) == None

\* The message load effect of ChatInterface: the persisted log of a chatroom
LoadMessages(store, roomId) ==
  IF IsSome(GetItem(store, MessagesKey(roomId)))
  THEN Val(GetItem(store, MessagesKey(roomId)))
  ELSE <<>>

\* ChatInterface mount: its own useOTPAuth instance and the message load effect
MountChat(store, room) ==
  [user |-> CheckAuthState(store).user,
   isAuthenticated |-> CheckAuthState(store).isAuthenticated,
   messages |-> LoadMessages(store, room.id),
   isTyping |-> FALSE]

\* newRoom with the name as typed
NewRoomUntrimmed(name, user) ==
  [id |-> "room_" \o ToString(now), name |-> name, userId |-> user.id,
   createdAt |-> ISOString(now), lastMessage |-> None, lastMessageTime |-> None]

NewRoom(name, user) ==
  [id |-> "room_" \o ToString(now), name |-> Trim(name), userId |-> user.id,
   createdAt |-> ISOString(now), lastMessage |-> None, lastMessageTime |-> None]

\* createChatroom, from the Create button or the Enter key of the name input
CreateChatroom(name) ==
  /\ IsSome(dash) /\ Val(dash).selectedChatroom = None
  /\ Len(Val(dash).chatrooms) < MaxRooms
  /\ IF Trim(name) = "" \/ ~IsSome(Val(dash).user)
     THEN UNCHANGED <<localStorage, dash, chat, now>>
     ELSE LET room == NewRoom(name, Val(Val(dash).user))
              rooms == <<room>> \o Val(dash).chatrooms
              store == SaveChatroomsStore(localStorage, Val(dash).user, rooms)
          IN /\ ClockReadable
             /\ localStorage' = store
             /\ dash' = Some([Val(dash) EXCEPT !.chatrooms = rooms,
                                               !.selectedChatroom = Some(room)])
             /\ chat' = Some(MountChat(store, room))
             /\ now' = now + 1
  /\ UNCHANGED <<hookModule, sessionStorage, appAuth, otpState, intervalRem,
                 timers, cooldown>>

WithoutRoom(rooms, roomId) == SelectSeq(rooms, LAMBDA r : r.id # roomId)

\* deleteChatroom(roomId) of the Dashboard that shows its list
DeleteChatroomId(roomId) ==
  /\ IsSome(dash) /\ Val(dash).selectedChatroom = None
  /\ LET rooms == WithoutRoom(Val(dash).chatrooms, roomId)
         store == SaveChatroomsStore(localStorage, Val(dash).user, rooms)
     IN /\ localStorage' = IF IsSome(Val(dash).user)
                           THEN RemoveItem(store, MessagesKey(roomId)) ELSE store
        /\ dash' = Some([Val(dash) EXCEPT !.chatrooms =
                           SaveChatroomsList(Val(dash).chatrooms, Val(dash).user, rooms)])
  /\ UNCHANGED <<hookModule, sessionStorage, appAuth, otpState, intervalRem,
                 chat, timers, now, cooldown>>

\* deleteChatroom, from the delete button of a listed chatroom
DeleteChatroom(k) ==
  /\ IsSome(dash)
  /\ k \in 1..Len(Val(dash).chatrooms)
  /\ DeleteChatroomId(Val(dash).chatrooms[k].id)

\* The ids createChatroom can have issued
RoomIds == {"room_" \o ToString(t) : t \in 0..MaxNow}
ListedIds(rooms) == {rooms[j].id : j \in 1..Len(rooms)}

\* deleteChatroom called with an id that no listed chatroom has (no button of
\* the page makes this call)
DeleteUnlisted(roomId) ==
  /\ IsSome(dash)
  /\ roomId \notin ListedIds(Val(dash).chatrooms)
  /\ DeleteChatroomId(roomId)

\* A click on a listed chatroom: setSelectedChatroom(room) mounts ChatInterface
SelectChatroom(k) ==
  /\ IsSome(dash) /\ Val(dash).selectedChatroom = None
  /\ k \in 1..Len(Val(dash).chatrooms)
  /\ dash' = Some([Val(dash) EXCEPT !.selectedChatroom = Some(Val(dash).chatrooms[k])])
  /\ chat' = Some(MountChat(localStorage, Val(dash).chatrooms[k]))
  /\ UNCHANGED <<hookModule, localStorage, sessionStorage, appAuth, otpState,
                 intervalRem, timers, now, cooldown>>

-----------------------------------------------------------------------------
(* ChatInterface *)

ChatInputs == {" Hello ", "   "}
FileNames == {"a.png"}

AiText == "This is a simulated AI response."
AiImageText ==
  "I can see you've shared an image! While I can't analyze images in this demo, I'd be happy to help you with any questions about it."

Message(id, content, isUser, roomId, imageUrl) ==
  [id |-> id, content |-> content, isUser |-> isUser,
   timestamp |-> ISOString(now), chatroomId |-> roomId, imageUrl |-> imageUrl]

\* The closure of one ChatInterface render: the chatroom prop and, through the
\* onUpdateChatroom prop, the chatrooms and user of the Dashboard render
Closure ==
  [chatroom |-> Val(Val(dash).selectedChatroom),
   rooms |-> Val(dash).chatrooms,
   duser |-> Val(dash).user]

\* The chatroom record saveMessages hands to onUpdateChatroom
UpdatedChatroom(chatroom, msgs) ==
  [chatroom EXCEPT
     !.lastMessage = Some(Substring0(msgs[Len(msgs)].content, PreviewLength)),
     !.lastMessageTime = Some(msgs[Len(msgs)].timestamp)]

\* onUpdateChatroom: the list of the Dashboard render with the record replaced
UpdatedRooms(rooms, updated) ==
  [j \in 1..Len(rooms) |-> IF rooms[j].id = updated.id THEN updated ELSE rooms[j]]

\* saveMessages under closure c: what it leaves in localStorage
SaveMessagesStore(store, c, msgs) ==
  IF Len(msgs) > 0
  THEN SaveChatroomsStore(SetItem(store, MessagesKey(c.chatroom.id), msgs),
                          c.duser,
                          UpdatedRooms(c.rooms, UpdatedChatroom(c.chatroom, msgs)))
  ELSE SetItem(store, MessagesKey(c.chatroom.id), msgs)

\* saveMessages under closure c: the chatrooms list it leaves in Dashboard
SaveMessagesRooms(cur, c, msgs) ==
  IF Len(msgs) > 0
  THEN SaveChatroomsList(cur, c.duser,
                         UpdatedRooms(c.rooms, UpdatedChatroom(c.chatroom, msgs)))
  ELSE cur

\* The callbacks of a ChatInterface that has been unmounted set no state
Orphaned(ts) ==
  [j \in 1..Len(ts) |->
     IF ts[j].kind \in {"reply", "onload", "imgReply"}
     THEN [ts[j] EXCEPT !.data.live = FALSE] ELSE ts[j]]

\* The back button: setSelectedChatroom(null) unmounts ChatInterface
OnBack ==
  /\ IsSome(chat)
  /\ dash' = Some([Val(dash) EXCEPT !.selectedChatroom = None])
  /\ chat' = None
  /\ timers' = Orphaned(timers)
  /\ UNCHANGED <<hookModule, localStorage, sessionStorage, appAuth, otpState,
                 intervalRem, now, cooldown>>

\* sendMessage, from the Send button or the Enter key of the enabled input
SendMessage(input) ==
  /\ IsSome(chat) /\ ~Val(chat).isTyping
  /\ Len(Val(chat).messages) < MaxMessages
  /\ Len(timers) < MaxPending
  /\ IF Trim(input) = "" \/ ~IsSome(Val(chat).user)
     THEN UNCHANGED <<localStorage, dash, chat, timers, now>>
     ELSE LET c == Closure
              m == Message("msg_" \o ToString(now), Trim(input), TRUE,
                           c.chatroom.id, None)
              msgs == Append(Val(chat).messages, m)
          IN /\ ClockReadable
             /\ localStorage' = SaveMessagesStore(localStorage, c, msgs)
             /\ dash' = Some([Val(dash) EXCEPT !.chatrooms =
                                SaveMessagesRooms(Val(dash).chatrooms, c, msgs)])
             /\ chat' = Some([Val(chat) EXCEPT !.messages = msgs, !.isTyping = TRUE])
             /\ timers' = Append(timers,
                   Timer("reply", ReplyDelayMs,
                         [roomId |-> c.chatroom.id, live |-> TRUE]))
             /\ now' = now + 1
  /\ UNCHANGED <<hookModule, sessionStorage, appAuth, otpState, intervalRem,
                 cooldown>>

\* The timeout of sendMessage: the reply goes to the messages state only
ReplyTimeout(i) ==
  /\ Due(i) /\ timers[i].kind = "reply"
  /\ ClockReadable
  /\ LET m == Message("msg_" \o ToString(now) \o "_ai", AiText, FALSE,
                      timers[i].data.roomId, None)
     IN /\ chat' = IF timers[i].data.live
                   THEN Some([Val(chat) EXCEPT !.messages = Append(@, m),
                                               !.isTyping = FALSE])
                   ELSE chat
  /\ timers' = RemoveAt(timers, i)
  /\ now' = now + 1
  /\ UNCHANGED <<hookModule, localStorage, sessionStorage, appAuth, otpState,
                 intervalRem, dash, cooldown>>

\* handleImageUpload: the file is handed to a FileReader
HandleImageUpload(name) ==
  /\ IsSome(chat)
  /\ Len(Val(chat).messages) < MaxMessages
  /\ Len(timers) < MaxPending
  /\ IF ~IsSome(Val(chat).user)
     THEN UNCHANGED timers
     ELSE timers' = Append(timers,
             [kind |-> "onload", rem |-> 0,
              data |-> [c |-> Closure, messages |-> Val(chat).messages,
                        name |-> name, live |-> TRUE]])
  /\ UNCHANGED <<hookModule, localStorage, sessionStorage, appAuth, otpState,
                 intervalRem, dash, chat, now, cooldown>>

\* reader.onload: the image message is saved and the reply timeout is set
ReaderOnload(i) ==
  /\ Due(i) /\ timers[i].kind = "onload"
  /\ ClockReadable
  /\ LET d == timers[i].data
         m == Message("msg_" \o ToString(now) \o "_img",
                      "Shared an image: " \o d.name, TRUE, d.c.chatroom.id,
                      Some("data:image/png;base64,AA=="))
         msgs == Append(d.messages, m)
     IN /\ localStorage' = SaveMessagesStore(localStorage, d.c, msgs)
        /\ dash' = Some([Val(dash) EXCEPT !.chatrooms =
                           SaveMessagesRooms(Val(dash).chatrooms, d.c, msgs)])
        /\ chat' = IF d.live
                   THEN Some([Val(chat) EXCEPT !.messages = msgs, !.isTyping = TRUE])
                   ELSE chat
        /\ timers' = Append(RemoveAt(timers, i),
              Timer("imgReply", ImageReplyDelayMs,
                    [c |-> d.c, messages |-> msgs, live |-> d.live]))
  /\ now' = now + 1
  /\ UNCHANGED <<hookModule, sessionStorage, appAuth, otpState, intervalRem,
                 cooldown>>

\* The timeout of reader.onload: the reply is saved through saveMessages
ImageReplyTimeout(i) ==
  /\ Due(i) /\ timers[i].kind = "imgReply"
  /\ ClockReadable
  /\ LET d == timers[i].data
         m == Message("msg_" \o ToString(now) \o "_ai_img", AiImageText, FALSE,
                      d.c.chatroom.id, None)
         msgs == Append(d.messages, m)
     IN /\ localStorage' = SaveMessagesStore(localStorage, d.c, msgs)
        /\ dash' = Some([Val(dash) EXCEPT !.chatrooms =
                           SaveMessagesRooms(Val(dash).chatrooms, d.c, msgs)])
        /\ chat' = IF d.live
                   THEN Some([Val(chat) EXCEPT !.messages = msgs, !.isTyping = FALSE])
                   ELSE chat
  /\ timers' = RemoveAt(timers, i)
  /\ now' = now + 1
  /\ UNCHANGED <<hookModule, sessionStorage, appAuth, otpState, intervalRem,
                 cooldown>>

-----------------------------------------------------------------------------
(* Time *)

\* TickMs of time pass: allowed once every due callback has run
Tick ==
  /\ \A i \in 1..Len(timers) : timers[i].rem > 0
  /\ ~(IntervalActive /\ intervalRem = 0)
  /\ timers' = [i \in 1..Len(timers) |-> [timers[i] EXCEPT !.rem = @ - 1]]
  /\ intervalRem' = IF IntervalActive THEN intervalRem - 1 ELSE 0
  /\ UNCHANGED <<hookModule, localStorage, sessionStorage, appAuth, otpState,
                 dash, chat, now, cooldown>>

\* Date.now() is the wall clock in milliseconds: the next read returns the
\* value the last read returned when both fall in one millisecond or when the
\* system clock was set back in between
ClockRepeats ==
  /\ now > 0
  /\ now' = now - 1
  /\ UNCHANGED <<hookModule, localStorage, sessionStorage, appAuth, otpState,
                 intervalRem, dash, chat, timers, cooldown>>

-----------------------------------------------------------------------------
(* Specification *)

\* A first visit: both storages are empty
Init ==
  /\ hookModule = "unresolved"
  /\ localStorage = EmptyStorage
  /\ sessionStorage = NoChallenge
  /\ appAuth = InitialAuthState
  /\ otpState = None
  /\ intervalRem = 0
  /\ dash = None
  /\ chat = None
  /\ timers = <<>>
  /\ now = 0
  /\ cooldown = "none"

\* A later visit: localStorage holds the user record an earlier login left
StoredUsers ==
  {[id |-> "user_0", phone |-> "5551234", countryCode |-> cc] : cc \in {"+1"}}

InitReturning ==
  /\ hookModule = "unresolved"
  /\ \E u \in StoredUsers : localStorage = SetItem(EmptyStorage, UserKey, u)
  /\ sessionStorage = NoChallenge
  /\ appAuth = InitialAuthState
  /\ otpState = None
  /\ intervalRem = 0
  /\ dash = None
  /\ chat = None
  /\ timers = <<>>
  /\ now = 1
  /\ cooldown = "none"

\* A visit that finds whatever an earlier version of the page, another script
\* of the origin or the user left under 'otpUser': a User record, a JSON object
\* that is not a User, a string that is not JSON, the empty string, or nothing
StoredRecords ==
  StoredUsers \cup {[id |-> "user_0"], NotJSON("{"), NotJSON("")}

InitStored ==
  /\ hookModule = "unresolved"
  /\ \/ localStorage = EmptyStorage
     \/ \E v \in StoredRecords : localStorage = SetItem(EmptyStorage, UserKey, v)
  /\ sessionStorage = NoChallenge
  /\ appAuth = InitialAuthState
  /\ otpState = None
  /\ intervalRem = 0
  /\ dash = None
  /\ chat = None
  /\ timers = <<>>
  /\ now = 1
  /\ cooldown = "none"

\* Page load, the session hook and the passing of time
NextSession ==
  \/ AppMount
  \/ Reload
  \/ Logout_part_001
  \/ Logout_part_002
  \/ Tick

\* The OTP flow up to login
NextAuth ==
  \/ \E cc \in CountryCodes : SelectCountry(cc)
  \/ \E raw \in RawPhones : TypePhone(raw)
  \/ \E raw \in RawOtps : TypeOtp(raw)
  \/ SendOTPClick
  \/ VerifyOTPClick
  \/ ResendOTP
  \/ GoBack
  \/ IntervalTick
  \/ \E i \in 1..Len(timers) : SendTimeout(i)
  \/ \E i \in 1..Len(timers) : VerifyTimeout(i)
  \/ \E i \in 1..Len(timers) : LoginTimeout(i)

\* Chatrooms and messages
NextChat ==
  \/ \E name \in RoomNames : CreateChatroom(name)
  \/ \E k \in 1..MaxRooms : DeleteChatroom(k)
  \/ \E k \in 1..MaxRooms : SelectChatroom(k)
  \/ OnBack
  \/ \E input \in ChatInputs : SendMessage(input)
  \/ \E i \in 1..Len(timers) : ReplyTimeout(i)
  \/ \E name \in FileNames : HandleImageUpload(name)
  \/ \E i \in 1..Len(timers) : ReaderOnload(i)
  \/ \E i \in 1..Len(timers) : ImageReplyTimeout(i)

\* The authentication flow of a first visit, through login and logout
SpecAuth == Init /\ [][NextSession \/ NextAuth]_vars

\* The same with time passing and every due callback run: the browser runs an
\* expired setTimeout or setInterval callback as soon as the event loop is free
SpecAuthFair ==
  /\ SpecAuth
  /\ WF_vars(Tick)
  /\ WF_vars(IntervalTick)
  /\ WF_vars(\E i \in 1..Len(timers) : SendTimeout(i))
  /\ WF_vars(\E i \in 1..Len(timers) : VerifyTimeout(i))
  /\ WF_vars(\E i \in 1..Len(timers) : LoginTimeout(i))

\* The chatrooms and messages of a returning, authenticated user
SpecChat == InitReturning /\ [][NextSession \/ NextChat]_vars

\* The same from whatever 'otpUser' holds when the page is loaded
SpecRestore == InitStored /\ [][NextSession \/ NextChat]_vars

\* SpecChat with deleteChatroom also called for ids that are not listed
SpecStore ==
  InitReturning
    /\ [][NextSession \/ NextChat
            \/ \E roomId \in RoomIds : DeleteUnlisted(roomId)]_vars

\* The chatroom list of Dashboard under a wall clock that need not advance
\* between two reads
NextRooms ==
  \/ AppMount
  \/ \E name \in RoomNames : CreateChatroom(name)
  \/ \E k \in 1..MaxRooms : DeleteChatroom(k)
  \/ \E k \in 1..MaxRooms : SelectChatroom(k)
  \/ OnBack
  \/ ClockRepeats

SpecClock == InitReturning /\ [][NextRooms]_vars

-----------------------------------------------------------------------------
(* Properties *)

Last(s) == s[Len(s)]
RoomListed(rooms, roomId) == \E k \in 1..Len(rooms) : rooms[k].id = roomId

\* The chatroom a pending ChatInterface callback belongs to
TimerRoom(t) == IF t.kind = "reply" THEN t.data.roomId ELSE t.data.c.chatroom.id

\* C1: a verification of a 6-digit code succeeds (the user record is written,
\* the challenge is consumed and a mounted OTPAuth goes to step verified) if
\* and only if the code is string-equal to the code sessionStorage holds when
\* the verification is evaluated; every other code leaves both storages as they
\* were and ends in the verification error.
C1_VerifyIffStoredCode ==
  [][\A i \in 1..Len(timers) :
       VerifyTimeout(i) =>
         LET code == timers[i].data.otp
         IN /\ Len(code) = OtpLength
            /\ (sessionStorage.otp = Some(code)) =>
                 /\ GetItem(localStorage', UserKey) = Some(NewUser(timers[i].data))
                 /\ sessionStorage' = NoChallenge
                 /\ IsSome(otpState) =>
                      /\ Val(otpState').step = "verified"
                      /\ Val(otpState').error = Val(otpState).error
            /\ (sessionStorage.otp # Some(code)) =>
                 /\ localStorage' = localStorage
                 /\ sessionStorage' = sessionStorage
                 /\ IsSome(otpState) =>
                      /\ Val(otpState').step = Val(otpState).step
                      /\ Val(otpState').error = InvalidOtpError]_vars

\* C1 witness: a verification has succeeded: OTPAuth shows step verified, the
\* user record is stored and the challenge is gone
C1_Verified ==
  /\ IsSome(otpState) /\ Val(otpState).step = "verified"
  /\ IsSome(GetItem(localStorage, UserKey))
  /\ sessionStorage = NoChallenge

\* C2: once a code has been issued, no further code is stored in
\* sessionStorage before the 60-second countdown that issuance started has
\* counted down to zero.
C2_NoIssueDuringCooldown ==
  [][\A i \in 1..Len(timers) : SendTimeout(i) => cooldown # "running"]_vars

\* C3: when the reply timeout of a chatroom fires after that chatroom was
\* deleted, nothing is written: its messages key stays absent and the chatroom
\* is neither in Dashboard's list nor in the persisted list afterwards.
C3_DeletedRoomReplyDiscarded ==
  [][\A i \in 1..Len(timers) :
       ( /\ ReplyTimeout(i) \/ ImageReplyTimeout(i)
         /\ ~RoomListed(Val(dash).chatrooms, TimerRoom(timers[i]))
         /\ MessagesKey(TimerRoom(timers[i])) \notin DOMAIN localStorage )
       => /\ MessagesKey(TimerRoom(timers[i])) \notin DOMAIN localStorage'
          /\ ~RoomListed(Val(dash').chatrooms, TimerRoom(timers[i]))
          /\ \A u \in StoredUsers :
               ~RoomListed(LoadChatrooms(localStorage', Some(u)),
                           TimerRoom(timers[i]))]_vars

IsPrefix(s, t) == Len(s) <= Len(t) /\ SubSeq(t, 1, Len(s)) = s
IsMessagesKey(k) == StartsWith(k, "messages_")

\* C4: the persisted message log of a chatroom is append-only: while its key
\* stays in localStorage, the earlier value is a prefix of the later value.
C4_LogAppendOnly ==
  [][\A k \in DOMAIN localStorage \cap DOMAIN localStorage' :
       IsMessagesKey(k) => IsPrefix(localStorage[k], localStorage'[k])]_vars

\* C5: when the reply timeout of a text message fires and the persisted log
\* of the chatroom holds that one user message, the persisted log afterwards
\* holds exactly 2 messages: the user message and then a reply with isUser
\* false.
C5_ReplyInPersistedLog ==
  [][\A i \in 1..Len(timers) :
       ( /\ ReplyTimeout(i)
         /\ Len(LoadMessages(localStorage, timers[i].data.roomId)) = 1 )
       => LET before == LoadMessages(localStorage, timers[i].data.roomId)
              after == LoadMessages(localStorage', timers[i].data.roomId)
          IN /\ Len(after) = 2
             /\ after[1] = before[1]
             /\ ~after[2].isUser]_vars

\* The preview of chatroom m.chatroomId in `rooms` is that of message m
PreviewMatches(rooms, m) ==
  \E k \in 1..Len(rooms) :
    /\ rooms[k].id = m.chatroomId
    /\ rooms[k].lastMessage = Some(Substring0(m.content, PreviewLength))
    /\ rooms[k].lastMessageTime = Some(m.timestamp)

\* C6: whenever a message is added to the open conversation or a message log
\* is written to localStorage, the chatroom's record in Dashboard's list has
\* lastMessage equal to the first 100 characters of the last message's content
\* and lastMessageTime equal to its timestamp.
C6_PreviewFollowsAppend ==
  [][/\ ( /\ IsSome(chat) /\ IsSome(chat')
          /\ Val(chat').messages # Val(chat).messages )
        => PreviewMatches(Val(dash').chatrooms, Last(Val(chat').messages))
     /\ \A k \in DOMAIN localStorage' :
          ( /\ IsMessagesKey(k)
            /\ k \in DOMAIN localStorage => localStorage'[k] # localStorage[k]
            /\ Len(localStorage'[k]) > 0 )
          => PreviewMatches(Val(dash').chatrooms, Last(localStorage'[k]))]_vars

\* Between two chatroom lists only the record of roomId may differ
OnlyRecordChanged(old, new, roomId) ==
  /\ Len(new) = Len(old)
  /\ \A k \in 1..Len(old) :
       /\ new[k].id = old[k].id
       /\ old[k].id # roomId => new[k] = old[k]

\* C7: an append to chatroom X, immediate or delayed, leaves the set and order
\* of the chatrooms as they were and changes no record but X's, in Dashboard's
\* list and in the persisted list.
C7_AppendChangesOnlyItsRoom ==
  [][/\ \A i \in 1..Len(timers) :
          (ReplyTimeout(i) \/ ReaderOnload(i) \/ ImageReplyTimeout(i))
          => /\ OnlyRecordChanged(Val(dash).chatrooms, Val(dash').chatrooms,
                                  TimerRoom(timers[i]))
             /\ \A u \in StoredUsers :
                  OnlyRecordChanged(LoadChatrooms(localStorage, Some(u)),
                                    LoadChatrooms(localStorage', Some(u)),
                                    TimerRoom(timers[i]))
     /\ \A input \in ChatInputs :
          SendMessage(input)
          => /\ OnlyRecordChanged(Val(dash).chatrooms, Val(dash').chatrooms,
                                  Val(Val(dash).selectedChatroom).id)
             /\ \A u \in StoredUsers :
                  OnlyRecordChanged(LoadChatrooms(localStorage, Some(u)),
                                    LoadChatrooms(localStorage', Some(u)),
                                    Val(Val(dash).selectedChatroom).id)]_vars

\* C8: once logout has run (no login follows it in SpecChat), localStorage
\* holds no user record, no chatrooms key and no messages key, as on a first
\* visit, and sessionStorage holds no challenge, whatever callbacks were
\* pending at logout.
C8_LogoutLeavesNothing ==
  hookModule # "unresolved" =>
    /\ DOMAIN localStorage = {}
    /\ sessionStorage = NoChallenge

\* C9: when the session is restored (App's hook instance mounts) after a
\* logout, it is unauthenticated with no user, and the persisted chatroom list
\* of every user who owned one before the logout is empty.
C9_RestoreAfterLogoutIsEmpty ==
  [][(hookModule # "unresolved" /\ AppMount)
     => /\ ~appAuth'.isAuthenticated
        /\ appAuth'.user = None
        /\ \A u \in StoredUsers :
             LoadChatrooms(localStorage', Some(u)) = <<>>]_vars


\* C10: while OTPAuth is mounted its step changes only from phone to otp,
\* from otp to phone and from otp to verified, and a verified step changes no
\* more.
C10_StepTransitions ==
  [][(IsSome(otpState) /\ IsSome(otpState')
      /\ Val(otpState').step # Val(otpState).step)
     => <<Val(otpState).step, Val(otpState').step>> \in
          {<<"phone", "otp">>, <<"otp", "phone">>, <<"otp", "verified">>}]_vars

\* C11: on every successful verification the user that is written carries
\* the phone and country code the stored challenge was issued for: the
\* 'otpPhone' value equals the user's countryCode followed by the user's phone.
C11_UserMatchesChallengeTarget ==
  [][\A i \in 1..Len(timers) :
       ( /\ VerifyTimeout(i)
         /\ OtpMatches(timers[i].data.otp, sessionStorage.otp) )
       => sessionStorage.otpPhone =
            Some(Val(GetItem(localStorage', UserKey)).countryCode
                 \o Val(GetItem(localStorage', UserKey)).phone)]_vars

\* C12: when the verification of a 6-digit code that differs from the stored
\* code is evaluated, it makes no transition (a step that is otp stays otp),
\* an error message is set, the stored challenge is unchanged, no user record
\* is written, and the form is left ready for the next attempt: not loading,
\* the entered code kept, nothing counted.
C12_MismatchFailsWithoutLockout ==
  [][\A i \in 1..Len(timers) :
       ( /\ VerifyTimeout(i)
         /\ IsSome(otpState)
         /\ sessionStorage.otp # Some(timers[i].data.otp) )
       => /\ Val(otpState').step = Val(otpState).step
          /\ IsSome(Val(otpState').error)
          /\ ~Val(otpState').isLoading
          /\ Val(otpState').otp = Val(otpState).otp
          /\ sessionStorage' = sessionStorage
          /\ localStorage' = localStorage
          /\ timers' = RemoveAt(timers, i)]_vars

\* C12 witness: a verification has failed in the otp step: the error is shown
\* over a stored challenge, and the form is ready for another attempt
C12_FailedAttempt ==
  /\ IsSome(otpState) /\ Val(otpState).step = "otp"
  /\ IsSome(Val(otpState).error)
  /\ ~Val(otpState).isLoading /\ Len(Val(otpState).otp) = OtpLength
  /\ IsSome(sessionStorage.otp)
  /\ sessionStorage.otp # Some(Val(otpState).otp)
  /\ ~IsSome(GetItem(localStorage, UserKey))

\* C13: resendOTP invoked while canResend is false does nothing: the stored
\* challenge, timeLeft, the step, the entered code and every other field of
\* otpState are unchanged, and no send is started.
C13_ResendWithoutCanResendIsNoOp ==
  [][(ResendOTP /\ ~Val(otpState).canResend)
     => /\ sessionStorage' = sessionStorage
        /\ otpState' = otpState
        /\ intervalRem' = intervalRem
        /\ timers' = timers]_vars

\* C13 witness: the countdown of a stored challenge is running, canResend is
\* false, and resendOTP can be invoked
C13_ResendDuringCountdown ==
  /\ IsSome(otpState) /\ Val(otpState).step = "otp"
  /\ ~Val(otpState).canResend /\ Val(otpState).timeLeft > 0
  /\ IsSome(sessionStorage.otp)
  /\ ENABLED ResendOTP

\* The countdown of a mounted OTPAuth in the otp step
CountingDown ==
  IsSome(otpState) /\ Val(otpState).step = "otp" /\ Val(otpState).timeLeft > 0

\* C14: an issued code sets timeLeft to 60 and canResend to false; while the
\* step remains otp timeLeft changes only by a tick, which takes exactly 1
\* off, or by the next issuance; canResend is true exactly when timeLeft is 0
\* and is taken back only by an issuance; and a running countdown eventually
\* reaches 0, with canResend true, unless OTPAuth leaves the otp step first.
C14_CooldownCountsDown ==
  /\ [][\A i \in 1..Len(timers) :
          (SendTimeout(i) /\ IsSome(otpState))
          => Val(otpState').timeLeft = 60 /\ ~Val(otpState').canResend]_vars
  /\ [][(IntervalTick /\ Val(otpState).step = "otp")
        => /\ Val(otpState').timeLeft = Val(otpState).timeLeft - 1
           /\ Val(otpState').timeLeft >= 0
           /\ Val(otpState').canResend = (Val(otpState').timeLeft = 0)]_vars
  /\ [][( /\ IsSome(otpState) /\ IsSome(otpState')
          /\ Val(otpState).step = "otp" /\ Val(otpState').step = "otp"
          /\ \/ Val(otpState').timeLeft # Val(otpState).timeLeft
             \/ Val(otpState).canResend /\ ~Val(otpState').canResend )
        => \/ IntervalTick
           \/ \E i \in 1..Len(timers) : SendTimeout(i)]_vars
  /\ [](IsSome(otpState) =>
          (Val(otpState).canResend <=> Val(otpState).timeLeft = 0))
  /\ CountingDown ~>
       \/ ~IsSome(otpState)
       \/ Val(otpState).step # "otp"
       \/ Val(otpState).timeLeft = 0 /\ Val(otpState).canResend

\* C14 witness: the countdown of a stored challenge has run from 60 down to 0
\* in the otp step and canResend is true
C14_CountdownElapsed ==
  /\ IsSome(otpState) /\ Val(otpState).step = "otp"
  /\ Val(otpState).timeLeft = 0 /\ Val(otpState).canResend
  /\ cooldown = "elapsed"
  /\ IsSome(sessionStorage.otp)

\* C15: once OTPAuth has left the otp step the countdown is cancelled: in a
\* state whose step is phone or verified the interval callback does not run
\* and timeLeft does not change while the step is not otp.
C15_NoCountdownOutsideOtp ==
  [][(IsSome(otpState) /\ Val(otpState).step \in {"phone", "verified"})
     => /\ ~IntervalTick
        /\ (IsSome(otpState') /\ Val(otpState').step # "otp")
           => Val(otpState').timeLeft = Val(otpState).timeLeft]_vars

\* C16: goBack from the otp step sets the step to phone, clears the entered
\* code and the error, sets timeLeft to 0 and canResend to true and leaves
\* phone and countryCode as they are; and the step then leaves phone only
\* through a code issued for a request made in the phone step.
C16_GoBackReturnsToPhone ==
  /\ [][GoBack
        => /\ Val(otpState').step = "phone"
           /\ Val(otpState').otp = ""
           /\ Val(otpState').error = None
           /\ Val(otpState').timeLeft = 0
           /\ Val(otpState').canResend
           /\ Val(otpState').phone = Val(otpState).phone
           /\ Val(otpState').countryCode = Val(otpState).countryCode]_vars
  /\ [][( /\ IsSome(otpState) /\ IsSome(otpState')
          /\ Val(otpState).step = "phone" /\ Val(otpState').step # "phone" )
        => \E i \in 1..Len(timers) :
             SendTimeout(i) /\ timers[i].data.step = "phone"]_vars

\* C17: sendOTP invoked with a phone that is empty after the stripping of
\* non-digits is rejected: an error message is set, the step stays what it is
\* (phone stays phone), the stored challenge is neither created nor
\* overwritten, and no send and no countdown is started.
C17_EmptyPhoneRejected ==
  [][( /\ SendOTPClick \/ (ResendOTP /\ Val(otpState).canResend)
       /\ StripNonDigits(Val(otpState).phone) = "" )
     => /\ IsSome(Val(otpState').error)
        /\ Val(otpState').step = Val(otpState).step
        /\ Val(otpState').timeLeft = Val(otpState).timeLeft
        /\ Val(otpState').canResend = Val(otpState).canResend
        /\ Val(otpState').isLoading = Val(otpState).isLoading
        /\ intervalRem' = intervalRem
        /\ sessionStorage' = sessionStorage
        /\ timers' = timers]_vars

\* C17 witness: a request with an empty phone has been rejected
C17_Rejected ==
  /\ IsSome(otpState)
  /\ Val(otpState).phone = ""
  /\ Val(otpState).error = Some("Please enter a valid phone number")

\* The useOTPAuth instances alive in a state: App's, and those of the mounted
\* Dashboard and ChatInterface
AuthInstances ==
  {[user |-> appAuth.user, isAuthenticated |-> appAuth.isAuthenticated]}
    \cup (IF IsSome(dash)
          THEN {[user |-> Val(dash).user,
                 isAuthenticated |-> Val(dash).isAuthenticated]}
          ELSE {})
    \cup (IF IsSome(chat)
          THEN {[user |-> Val(chat).user,
                 isAuthenticated |-> Val(chat).isAuthenticated]}
          ELSE {})

\* C18: in every reachable state, every useOTPAuth instance has
\* isAuthenticated true exactly when its user is not null.
C18_AuthenticatedIffUser ==
  \A a \in AuthInstances : a.isAuthenticated <=> IsSome(a.user)

\* A login has made App's instance authenticated and a logout has reset
\* Dashboard's instance
C18_LoggedInAndOut ==
  /\ appAuth.isAuthenticated /\ IsSome(appAuth.user)
  /\ IsSome(dash) /\ ~Val(dash).isAuthenticated /\ Val(dash).user = None

\* What the claims call a structurally valid User record: a JSON object with
\* the fields login stores
IsUserRecord(v) == IsJSON(v) /\ DOMAIN v = {"id", "phone", "countryCode"}
HoldsValidUser(store) ==
  IsSome(GetItem(store, UserKey)) /\ IsUserRecord(Val(GetItem(store, UserKey)))

\* C19: the restore of App's hook instance ends authenticated exactly when
\* localStorage holds a structurally valid User under 'otpUser'; for an absent,
\* malformed or structurally invalid record it ends with isAuthenticated false
\* and user null; it always ends with isLoading false.
C19_RestoreValidatesRecord ==
  [][AppMount =>
       /\ appAuth'.isAuthenticated <=> HoldsValidUser(localStorage)
       /\ ~HoldsValidUser(localStorage) =>
            ~appAuth'.isAuthenticated /\ appAuth'.user = None
       /\ ~appAuth'.isLoading]_vars

\* C20: createChatroom by a Dashboard with a user.  With a name that is empty
\* after trimming, the chatroom list and localStorage are unchanged.  Otherwise
\* exactly one chatroom is added, at the head of the list, with the trimmed
\* name, the user's id as userId and no preview fields; the chatrooms that were
\* there follow it in their order, and the new list is the one stored under
\* the user's chatrooms key.
C20_CreatePrependsAndPersists ==
  [][\A name \in RoomNames :
       CreateChatroom(name) /\ IsSome(Val(dash).user) =>
         LET user == Val(Val(dash).user)
             old == Val(dash).chatrooms
             new == Val(dash').chatrooms
         IN IF Trim(name) = ""
            THEN new = old /\ localStorage' = localStorage
            ELSE /\ Len(new) = Len(old) + 1
                 /\ Tail(new) = old
                 /\ Head(new).name = Trim(name)
                 /\ Head(new).userId = user.id
                 /\ Head(new).lastMessage = None
                 /\ Head(new).lastMessageTime = None
                 /\ GetItem(localStorage', ChatroomsKey(user.id)) = Some(new)]_vars

\* A second chatroom has just been created: it heads the list, is the selected
\* one, and the stored list is the list in memory
C20_CreatedAtHead ==
  /\ IsSome(dash) /\ IsSome(Val(dash).user)
  /\ Len(Val(dash).chatrooms) = 2
  /\ Val(dash).selectedChatroom = Some(Head(Val(dash).chatrooms))
  /\ Head(Val(dash).chatrooms).name = "Demo"
  /\ Head(Val(dash).chatrooms).lastMessage = None
  /\ GetItem(localStorage, ChatroomsKey(Val(Val(dash).user).id))
       = Some(Val(dash).chatrooms)

DistinctIds(rooms) ==
  \A i, j \in 1..Len(rooms) : i # j => rooms[i].id # rooms[j].id

\* C21: at all times the chatrooms of the list Dashboard holds, and of every
\* list stored under a chatrooms key, have pairwise distinct ids.
C21_DistinctRoomIds ==
  /\ IsSome(dash) => DistinctIds(Val(dash).chatrooms)
  /\ \A k \in DOMAIN localStorage :
       StartsWith(k, "chatrooms_") => DistinctIds(localStorage[k])

\* C22: deleteChatroom of a listed chatroom, by a Dashboard with a user,
\* removes exactly that chatroom from the list in memory and from the stored
\* list, removes the stored message log of that chatroom, and leaves every
\* other chatroom record and every other message log as it was.
C22_DeleteRemovesExactlyOne ==
  [][\A k \in 1..MaxRooms :
       DeleteChatroom(k) /\ IsSome(Val(dash).user) =>
         LET user == Val(Val(dash).user)
             old == Val(dash).chatrooms
             new == Val(dash').chatrooms
             roomId == old[k].id
         IN /\ new = RemoveAt(old, k)
            /\ GetItem(localStorage', ChatroomsKey(user.id)) = Some(new)
            /\ MessagesKey(roomId) \notin DOMAIN localStorage'
            /\ \A key \in DOMAIN localStorage
                            \ {ChatroomsKey(user.id), MessagesKey(roomId)} :
                 /\ key \in DOMAIN localStorage'
                 /\ localStorage'[key] = localStorage[key]]_vars

\* The keys of the message logs
MessageKeys(store) == {k \in DOMAIN store : StartsWith(k, "messages_")}

C24_NoSessionFailsLoud ==
  /\ [](IsSome(dash) /\ ~IsSome(Val(dash).user) =>
          \A op \in StoreOperations :
            StoreError(op, Val(dash).user) = Some("UnauthorizedError"))
  /\ [][(/\ IsSome(dash) /\ ~IsSome(Val(dash).user)
         /\ \/ \E name \in RoomNames : CreateChatroom(name)
            \/ \E k \in 1..MaxRooms : DeleteChatroom(k))
        => localStorage' = localStorage]_vars

\* A step that stores a new value under a chatrooms_ or messages_ key
ChatDataWritten ==
  \E k \in DOMAIN localStorage' :
    /\ IsChatKey(k)
    /\ k \notin DOMAIN localStorage \/ localStorage'[k] # localStorage[k]

\* C25: whenever a chatroom or message record is written to localStorage, a
\* user record is stored under 'otpUser' and App's hook instance has isLoading
\* false, isAuthenticated true and a user.
C25_WritesOnlyWhileAuthenticated ==
  [][ChatDataWritten =>
       /\ UserKey \in DOMAIN localStorage
       /\ ~appAuth.isLoading /\ appAuth.isAuthenticated /\ IsSome(appAuth.user)]_vars

\* The login timeouts that are pending for the user with id `id`
PendingLogins(id) ==
  {i \in 1..Len(timers) : timers[i].kind = "login" /\ timers[i].data.user.id = id}

\* The ids verifyOTP can give a user
UserIds == {"user_" \o ToString(t) : t \in 0..(MaxLogins - 1)}

\* App's hook instance is authenticated as the user with id `id`, and that
\* user is the stored record
LoggedInAs(id) ==
  /\ ~appAuth.isLoading /\ appAuth.isAuthenticated /\ IsSome(appAuth.user)
  /\ Val(appAuth.user).id = id
  /\ GetItem(localStorage, UserKey) = appAuth.user

\* C26: a successful verification stores its user and sets exactly one login
\* timeout, for that user; no other step sets one; a login timeout makes App's
\* hook instance authenticated with its user and stores that user; and a
\* pending login timeout eventually runs, unless the page is loaded again
\* first.
C26_VerifiedLeadsToLogin ==
  /\ [][\A i \in 1..Len(timers) :
          (VerifyTimeout(i) /\ OtpMatches(timers[i].data.otp, sessionStorage.otp))
          => /\ Len(timers') = Len(timers)
             /\ timers'[Len(timers')].kind = "login"
             /\ GetItem(localStorage', UserKey) = Some(timers'[Len(timers')].data.user)
             /\ \A id \in UserIds :
                  Cardinality(PendingLogins(id)') =
                    Cardinality(PendingLogins(id))
                      + (IF timers'[Len(timers')].data.user.id = id THEN 1 ELSE 0)
             /\ IsSome(otpState) => Val(otpState').step = "verified"]_vars
  /\ [][(\E id \in UserIds :
           Cardinality(PendingLogins(id)') > Cardinality(PendingLogins(id)))
        => \E i \in 1..Len(timers) :
             VerifyTimeout(i) /\ OtpMatches(timers[i].data.otp, sessionStorage.otp)]_vars
  /\ [](\A id \in UserIds : Cardinality(PendingLogins(id)) <= 1)
  /\ [][\A i \in 1..Len(timers) :
          LoginTimeout(i)
          => /\ appAuth' = [user |-> Some(timers[i].data.user),
                            isLoading |-> FALSE, isAuthenticated |-> TRUE]
             /\ GetItem(localStorage', UserKey) = Some(timers[i].data.user)
             /\ \A j \in 1..Len(timers') :
                  ~(/\ timers'[j].kind = "login"
                    /\ timers'[j].data.user.id = timers[i].data.user.id)]_vars
  /\ \A id \in UserIds :
       (PendingLogins(id) # {}) ~> (LoggedInAs(id) \/ appAuth.isLoading)

\* A login has run after a verification: OTPAuth is gone, App's hook instance
\* is authenticated as the stored user and no login is pending
C26_LoginDone ==
  /\ otpState = None /\ IsSome(dash)
  /\ \E id \in UserIds : LoggedInAs(id)
  /\ \A id \in UserIds : PendingLogins(id) = {}

\* A request for a code has been accepted and its timeout has not yet run
SendPending == \E i \in 1..Len(timers) : timers[i].kind = "send"

\* The state a served request leaves: the otp step, a 6-digit code stored with
\* its phone, the countdown at 60, no resend and no loading
CodeIssued ==
  /\ IsSome(otpState)
  /\ Val(otpState).step = "otp"
  /\ Val(otpState).timeLeft = CooldownSeconds
  /\ ~Val(otpState).canResend /\ ~Val(otpState).isLoading
  /\ IsSome(sessionStorage.otp) /\ IsSome(sessionStorage.otpPhone)
  /\ Len(Val(sessionStorage.otp)) = OtpLength
  /\ StripNonDigits(Val(sessionStorage.otp)) = Val(sessionStorage.otp)

\* C27: once sendOTP has accepted a request, OTPAuth eventually is in the otp
\* step with a 6-digit code stored, timeLeft 60, canResend false and isLoading
\* false, unless the page is loaded again first.
C27_RequestLeadsToOtpStep ==
  SendPending ~> (CodeIssued \/ appAuth.isLoading)

\* C28: in every reachable state of a mounted OTPAuth, timeLeft is an integer
\* in 0..60 and canResend is true exactly when timeLeft is 0.
C28_TimeLeftInRange ==
  IsSome(otpState) =>
    /\ Val(otpState).timeLeft \in 0..CooldownSeconds
    /\ Val(otpState).canResend <=> Val(otpState).timeLeft = 0

\* The countdown has been started by an issued code and has ticked
C28_CountingDown ==
  /\ IsSome(otpState) /\ IsSome(sessionStorage.otp)
  /\ Val(otpState).timeLeft \in 1..(CooldownSeconds - 1)
  /\ ~Val(otpState).canResend

\* C29: whenever OTPAuth is in the verified step or App's session is
\* authenticated, sessionStorage holds neither 'otp' nor 'otpPhone'.
C29_NoChallengeOnceVerified ==
  (\/ IsSome(otpState) /\ Val(otpState).step = "verified"
   \/ appAuth.isAuthenticated)
  => sessionStorage = NoChallenge

\* No callback of a ChatInterface is pending
NoReplyPending ==
  \A i \in 1..Len(timers) : timers[i].kind \notin {"reply", "onload", "imgReply"}

\* C30: while a chatroom is open and no reply callback is pending, the
\* messages ChatInterface shows are the messages stored for that chatroom, so
\* that a ChatInterface mounted anew for it would show the same list.
C30_ShownEqualsStored ==
  (IsSome(chat) /\ NoReplyPending) =>
    /\ Val(chat).messages
         = LoadMessages(localStorage, Val(Val(dash).selectedChatroom).id)
    /\ MountChat(localStorage, Val(Val(dash).selectedChatroom)).messages
         = Val(chat).messages

\* The users a mounted Dashboard can take for the current one: the user of its
\* own hook instance and the user of App's
CurrentUsers == {u \in {Val(dash).user, appAuth.user} : IsSome(u)}

\* C31: whenever Dashboard is mounted, after its load and after every
\* createChatroom, deleteChatroom and preview update, those of delayed replies
\* included, the chatroom list it holds is the list stored under the current
\* user's chatrooms key.
C31_ListEqualsStored ==
  IsSome(dash) =>
    \A u \in CurrentUsers : Val(dash).chatrooms = LoadChatrooms(localStorage, u)

\* The list is back on screen and the delayed reply to an image has updated
\* the preview of a chatroom in memory and in localStorage
C31_PreviewByDelayedReply ==
  /\ IsSome(dash) /\ IsSome(Val(dash).user) /\ chat = None
  /\ Len(Val(dash).chatrooms) > 0
  /\ Val(dash).chatrooms[1].lastMessage
       = Some(Substring0(AiImageText, PreviewLength))
  /\ GetItem(localStorage, ChatroomsKey(Val(Val(dash).user).id))
       = Some(Val(dash).chatrooms)

\* C32: whenever App's hook instance has finished loading and is
\* authenticated, localStorage holds under 'otpUser' a user record whose id is
\* the id of the instance's user.
C32_SessionUserIsStored ==
  (~appAuth.isLoading /\ appAuth.isAuthenticated) =>
    /\ IsSome(appAuth.user)
    /\ IsSome(GetItem(localStorage, UserKey))
    /\ IsJSON(Val(GetItem(localStorage, UserKey)))
    /\ Val(GetItem(localStorage, UserKey)).id = Val(appAuth.user).id

====
